---------------------------- MODULE Spec2Model ----------------------------
(***************************************************************************)
(* Omnivore API: the digest REST router (submit / status / feedback), the  *)
(* digest record helpers on the cache store, and the replyToEmail usage    *)
(* limit plugin of the GraphQL server.                                     *)
(*                                                                         *)
(* The specifications share the variables:                                 *)
(*   Spec            digest router POST /v1 and GET /v1, the cache store   *)
(*                   with expiry, the job queue and its worker             *)
(*   SpecUsage       usageLimitPlugin (requestDidStart / willSendResponse) *)
(*   SpecFeedback    digest router POST /v1/feedback                       *)
(*   SpecConcurrent  POST /v1 handlers interleaved at their awaits         *)
(*   SpecViewer      fetchViewer of the iOS client                         *)
(*                                                                         *)
(* Environment assumed by Spec: the look-ups (active user, granted         *)
(* feature, cache read) answer; the token resolver may throw and the       *)
(* enqueue call may throw, as the handlers' catch blocks provide for.      *)
(***************************************************************************)
EXTENDS Integers, Sequences, FiniteSets, TLC

(***************************************************************************)
(* Bounds                                                                  *)
(***************************************************************************)
\* number of job ids uuid() hands out in one behaviour
MaxJobs == 2

\* number of GraphQL requests in flight at once
MaxInflight == 2

\* number of fetchViewer calls in one behaviour
MaxFetches == 4

(***************************************************************************)
(* Program constants                                                       *)
(***************************************************************************)
\* the EX argument of writeDigest's SET: 1 week, in seconds
RetentionSeconds == 60 * 60 * 24 * 7

Users == {"u1", "u2"}

\* outcome of `await getClaimsByToken(token)`: claims of a user, null, throw
NoClaims == "null"
ClaimsThrow == "throw"
ClaimsOutcomes == Users \cup {NoClaims, ClaimsThrow}

PENDING == "PENDING"
RUNNING == "RUNNING"
SUCCEEDED == "SUCCEEDED"
FAILED == "FAILED"
TaskState == {PENDING, RUNNING, SUCCEEDED, FAILED}

(***************************************************************************)
(* Digest objects and their JSON text.                                     *)
(* A JS object is a function from its own property names to values; a      *)
(* property may be present with the value undefined.  A Date is a value    *)
(* that JSON.stringify replaces by its ISO string.  JSON text is the       *)
(* sequence of <<key, value>> members in property order.                   *)
(***************************************************************************)
Undefined == "undefined"
DateValue == "Date(0)"
IsoString == "1970-01-01T00:00:00.000Z"

\* interface Digest, in declaration order
DigestFields ==
  << "id", "jobState", "createdAt", "description", "byline", "url", "title",
     "content", "chapters", "urlsToAudio", "speechFiles" >>

\* the fields the spec calls the result of a job
ResultFields ==
  {"description", "byline", "url", "title", "content", "chapters",
   "urlsToAudio", "speechFiles"}

\* Date.prototype.toJSON as applied by JSON.stringify
toJSON(v) == IF v = DateValue THEN IsoString ELSE v

RECURSIVE stringifyFrom(_, _)
stringifyFrom(obj, i) ==
  IF i > Len(DigestFields) THEN << >>
  ELSE LET k == DigestFields[i]
       IN  IF k \in DOMAIN obj /\ obj[k] # Undefined
           THEN << <<k, toJSON(obj[k])>> >> \o stringifyFrom(obj, i + 1)
           ELSE stringifyFrom(obj, i + 1)

\* JSON.stringify(digest): members with value undefined are dropped
JSONstringify(obj) == stringifyFrom(obj, 1)

\* JSON.parse(text): an object with one property per member
JSONparse(text) ==
  [k \in {text[i][1] : i \in DOMAIN text} |->
     LET i == CHOOSE n \in DOMAIN text : text[n][1] = k IN text[i][2]]

(***************************************************************************)
(* State                                                                   *)
(***************************************************************************)
VARIABLES
  redisClient,   \* redisDataSource.redisClient is set
  redis,         \* key -> [value: JSON text, ttl: seconds left], ttl 0 = no key
  elapsed,       \* key -> a retention window has passed since its last SET
  queue,         \* jobs handed to the task queue and not yet finished
  nextId,        \* index of the next id uuid() returns
  enqueueCalls,  \* calls of enqueueCreateDigest so far
  submit201,     \* POST /v1 answered 201 so far
  submit500,     \* POST /v1 answered 500 so far
  written,       \* key -> the object last handed to writeDigest, while kept
  usage,         \* user -> today's service usage rows for replyToEmail
  completed,     \* user -> replies that completed successfully today
  inflight,      \* GraphQL requests started and not yet answered (a bag)
  analytics,     \* the events handed to analytics.capture
  requests,      \* POST /v1 requests whose handler is between two awaits
  viewer,        \* one fetchViewer call of the iOS client
  last           \* the last step: request, environment answers, response

digestVars ==
  << redisClient, redis, elapsed, queue, nextId, enqueueCalls, submit201,
     submit500, written >>

usageVars == << usage, completed, inflight >>

feedbackVars == << analytics >>

otherVars == << requests, viewer >>

vars == << digestVars, usageVars, feedbackVars, otherVars, last >>

\* const digestKey = (userId) => `digest:${userId}`
digestKey(userId) == "digest:" \o userId

Keys == {digestKey(u) : u \in Users}

NoEntry == [value |-> << >>, ttl |-> 0]

\* redisClient.get(key): null once the key has expired or was never set
redisGet(key) == IF redis[key].ttl = 0 THEN << >> ELSE redis[key].value

\* the value null of `Digest | null`
Null == [null |-> "null"]

\* variant: reads the key without the digest: prefix, which nothing writes
getDigestBareKey(userId) ==
  LET key    == userId
      digest == IF redisClient /\ key \in DOMAIN redis
                THEN redisGet(key) ELSE << >>
  IN  IF digest # << >> THEN JSONparse(digest) ELSE Null

\* getDigest: digest ? JSON.parse(digest) : null
getDigest(userId) ==
  LET digest == IF redisClient THEN redisGet(digestKey(userId)) ELSE << >>
  IN  IF digest # << >> THEN JSONparse(digest) ELSE Null

\* variant: the read takes the key out of the store (GETDEL)
redisAfterGetDel(userId) == [redis EXCEPT ![digestKey(userId)] = NoEntry]

\* redisClient.get(key): the store after the read, value and expiry as before
redisAfterGet(userId) == redis

\* digest?.jobState
jobStateOf(digest) ==
  IF "jobState" \in DOMAIN digest THEN digest["jobState"] ELSE Undefined

\* variant: EX of two weeks
writeDigestTwoWeeks(userId, digest) ==
  [redis EXCEPT ![digestKey(userId)] =
     [value |-> JSONstringify(digest), ttl |-> 2 * RetentionSeconds]]

\* writeDigest: redisClient?.set(key, value, 'EX', one week); the store after
\* the call (as before when there is no client)
writeDigest(userId, digest) ==
  IF redisClient
  THEN [redis EXCEPT ![digestKey(userId)] =
          [value |-> JSONstringify(digest), ttl |-> RetentionSeconds]]
  ELSE redis

\* variant: the result of the SET is not looked at
writeDigestIgnoresResult == FALSE

\* writeDigest: if (!result) throw; without a client the result is undefined
writeDigestThrows == ~redisClient

\* uuid(): the n-th call returns a fresh id
uuid(n) == "job" \o ToString(n)

(***************************************************************************)
(* The record of a step                                                    *)
(***************************************************************************)
NoBody == << >>

\* the request (the answers of the look-ups the handler made; a look-up it
\* did not reach is recorded as FALSE) and the response
Step(op, claims, active, granted, status, body) ==
  [op |-> op, claims |-> claims,
   active |-> claims \in Users /\ active,
   granted |-> claims \in Users /\ active /\ granted,
   seen |-> Undefined, status |-> status, body |-> body]

\* the step of a POST /v1 that got as far as the enqueue call, with the
\* job state of the record its guard had read
StepSeen(step, digest) == [step EXCEPT !.seen = jobStateOf(digest)]

Internal(op) == Step(op, NoClaims, FALSE, FALSE, 0, NoBody)

(***************************************************************************)
(* enqueueCreateDigest(job, schedule): hands the job to the task queue and *)
(* the Pending record to the store, in that order, and returns the record. *)
(* Either hand-over may fail, and then the call throws.                    *)
(***************************************************************************)
EnqueueOutcomes == {"ok", "queueFails", "writeFails"}

PendingRecord(id) == [k \in {"id", "jobState"} |->
                        IF k = "id" THEN id ELSE PENDING]

Job(id, userId) == [id |-> id, userId |-> userId, status |-> "waiting"]

enqueueCreateDigest(id, userId, enq) ==
  /\ enqueueCalls' = enqueueCalls + 1
  /\ queue' = IF enq = "queueFails" THEN queue
              ELSE queue \cup {Job(id, userId)}
  /\ IF enq = "ok"
     THEN /\ redis' = writeDigest(userId, PendingRecord(id))
          /\ elapsed' = [elapsed EXCEPT ![digestKey(userId)] = FALSE]
          /\ written' = [written EXCEPT ![digestKey(userId)] =
                           PendingRecord(id)]
     ELSE UNCHANGED << redis, elapsed, written >>

(***************************************************************************)
(* The checks every handler of the router starts with: claims from the     *)
(* token, the active user, the granted feature.  0 = all passed.           *)
(***************************************************************************)
\* variant: the granted feature is looked up before the active user
authorizeFeatureFirst(claims, active, granted) ==
  IF claims \notin Users THEN 401
  ELSE IF ~granted THEN 403
  ELSE IF ~active THEN 401
  ELSE 0

\* variant: the granted feature is not looked up
authorizeNoFeature(claims, active, granted) ==
  IF claims \notin Users THEN 401
  ELSE IF ~active THEN 401
  ELSE 0

authorize(claims, active, granted) ==
  IF claims \notin Users THEN 401
  ELSE IF ~active THEN 401
  ELSE IF ~granted THEN 403
  ELSE 0

\* variant: a record that is Running or Succeeded refuses the submission
isRunningOrSucceeded(digest) == jobStateOf(digest) \in {RUNNING, SUCCEEDED}

\* digest?.jobState === TaskState.Running
isRunning(digest) == jobStateOf(digest) = RUNNING

\* variant: the two answers are swapped
submitStatusSwapped(enq) == IF enq = "ok" THEN 500 ELSE 201

\* variant: the accepted submission is answered 200
submitStatusOk(enq) == IF enq = "ok" THEN 200 ELSE 500

\* res.status(201).send(result), or sendStatus(500) from the catch block
submitStatus(enq) == IF enq = "ok" THEN 201 ELSE 500

\* res.send(obj): the object as JSON text
send(obj) == JSONstringify(obj)

(***************************************************************************)
(* router.post('/v1')                                                      *)
(***************************************************************************)
Submit(claims, active, granted) ==
  LET userId == claims
      auth   == authorize(claims, active, granted)
      id     == uuid(nextId)
      reply(status, body) ==
        last' = Step("submit", claims, active, granted, status, body)
  IN
  /\ UNCHANGED << usageVars, feedbackVars, otherVars >>
  /\ IF auth # 0
     THEN reply(auth, NoBody) /\ UNCHANGED digestVars
     ELSE IF isRunning(getDigest(userId))
     THEN reply(202, NoBody) /\ UNCHANGED digestVars
     ELSE /\ nextId <= MaxJobs
          /\ nextId' = nextId + 1
          /\ \E enq \in EnqueueOutcomes :
               /\ (enq = "ok" => ~writeDigestThrows)
               /\ enqueueCreateDigest(id, userId, enq)
               /\ last' = StepSeen(
                            Step("submit", claims, active, granted,
                                 submitStatus(enq),
                                 IF enq = "ok" THEN send(PendingRecord(id))
                                 ELSE NoBody),
                            getDigest(userId))
               /\ submit201' =
                    submit201 + IF submitStatus(enq) = 201 THEN 1 ELSE 0
               /\ submit500' =
                    submit500 + IF submitStatus(enq) = 500 THEN 1 ELSE 0
          /\ UNCHANGED redisClient

(***************************************************************************)
(* router.get('/v1')                                                       *)
(***************************************************************************)
\* variant: the whole record is sent for a running job too
StatusBodyWhole(digest) == send(digest)

\* { jobId: digest.id, jobState: digest.jobState }
StatusBody(digest) ==
  << <<"jobId", digest["id"]>>, <<"jobState", digest["jobState"]>> >>

\* variant: only the job state is sent, whatever the state
statusReplyStateOnly(digest) ==
  << <<"jobId", digest["id"]>>, <<"jobState", digest["jobState"]>> >>

\* the body of the 200 answer
statusReply(digest) ==
  IF digest["jobState"] = RUNNING THEN StatusBody(digest) ELSE send(digest)

GetStatus(claims, active, granted) ==
  LET userId == claims
      auth   == authorize(claims, active, granted)
      reply(status, body) ==
        last' = Step("status", claims, active, granted, status, body)
  IN
  /\ UNCHANGED << redisClient, elapsed, queue, nextId, enqueueCalls,
                  submit201, submit500, written >>
  /\ UNCHANGED << usageVars, feedbackVars, otherVars >>
  /\ IF auth # 0 THEN reply(auth, NoBody) /\ UNCHANGED redis
     ELSE /\ redis' = redisAfterGet(userId)
          /\ IF getDigest(userId) = Null THEN reply(404, NoBody)
             ELSE reply(200, statusReply(getDigest(userId)))

(***************************************************************************)
(* The task queue's worker: picks a waiting job up, and finishes it; both  *)
(* times it writes the user's record with writeDigest.                     *)
(***************************************************************************)
NoFields == [k \in {} |-> Undefined]

FullResult ==
  [k \in ResultFields \cup {"createdAt"} |->
     CASE k = "createdAt"   -> DateValue
       [] k = "title"       -> "Weekly Digest"
       [] k = "description" -> Undefined
       [] OTHER             -> k \o "-value"]

Payloads == {NoFields, FullResult}

\* what the worker writes when it finishes a job
Outcomes ==
  {<<SUCCEEDED, FullResult>>, <<SUCCEEDED, NoFields>>, <<FAILED, NoFields>>}

Record(id, jobState, payload) ==
  [k \in {"id", "jobState"} \cup DOMAIN payload |->
     IF k = "id" THEN id ELSE IF k = "jobState" THEN jobState ELSE payload[k]]

WorkerWrite(job, jobState, payload) ==
  /\ redis' = writeDigest(job.userId, Record(job.id, jobState, payload))
  /\ IF writeDigestThrows
     THEN UNCHANGED << elapsed, written >>
     ELSE /\ elapsed' = [elapsed EXCEPT ![digestKey(job.userId)] = FALSE]
          /\ written' = [written EXCEPT ![digestKey(job.userId)] =
                           Record(job.id, jobState, payload)]

WorkerStart(job, payload) ==
  /\ job \in queue
  /\ job.status = "waiting"
  /\ queue' = (queue \ {job}) \cup {[job EXCEPT !.status = "active"]}
  /\ WorkerWrite(job, RUNNING, payload)
  /\ last' = Internal("workerStart")
  /\ UNCHANGED << redisClient, nextId, enqueueCalls, submit201, submit500 >>
  /\ UNCHANGED << usageVars, feedbackVars, otherVars >>

WorkerFinish(job, jobState, payload) ==
  /\ job \in queue
  /\ job.status = "active"
  /\ queue' = queue \ {job}
  /\ WorkerWrite(job, jobState, payload)
  /\ last' = Internal("workerFinish")
  /\ UNCHANGED << redisClient, nextId, enqueueCalls, submit201, submit500 >>
  /\ UNCHANGED << usageVars, feedbackVars, otherVars >>

(***************************************************************************)
(* A retention window (one week) passes in which the key is not written:   *)
(* the key loses that much of its expiry, and is gone when none is left.   *)
(***************************************************************************)
Elapse(key) ==
  /\ ~elapsed[key]
  /\ elapsed' = [elapsed EXCEPT ![key] = TRUE]
  /\ redis' = [redis EXCEPT ![key] =
                 IF @.ttl <= RetentionSeconds THEN NoEntry
                 ELSE [@ EXCEPT !.ttl = @ - RetentionSeconds]]
  /\ written' = [written EXCEPT ![key] =
                   IF redis'[key].ttl = 0 THEN Null ELSE @]
  /\ last' = Internal("elapse")
  /\ UNCHANGED << redisClient, queue, nextId, enqueueCalls, submit201,
                  submit500 >>
  /\ UNCHANGED << usageVars, feedbackVars, otherVars >>

(***************************************************************************)
(* router.post('/v1') as the event loop runs it when several requests are  *)
(* being handled: a handler runs up to an await, and other handlers run    *)
(* before it is resumed.  The look-ups up to `await getDigest(userId)` and *)
(* the test of the record are one step; `await enqueueCreateDigest(...)`   *)
(* and the answer are the next.                                            *)
(***************************************************************************)
ReqIds == {"r1", "r2"}

NoRequestYet == [pc |-> "idle", claims |-> NoClaims, status |-> 0,
                 overlaps |-> FALSE]

\* another handler of the same user has read the record and not yet enqueued
Overlapping(r, userId) ==
  \E o \in ReqIds \ {r} :
     requests[o].pc = "enqueue" /\ requests[o].claims = userId

\* lines 49-93: the checks, the read of the record, the Running test
SubmitGuard(r, claims, active, granted) ==
  LET userId == claims
      auth   == authorize(claims, active, granted)
      answered(status) ==
        /\ requests' = [requests EXCEPT ![r] =
                          [pc |-> "done", claims |-> claims,
                           status |-> status, overlaps |-> FALSE]]
        /\ last' = Step("submit", claims, active, granted, status, NoBody)
  IN
  /\ requests[r].pc = "idle"
  /\ UNCHANGED << digestVars, usageVars, feedbackVars, viewer >>
  /\ IF auth # 0 THEN answered(auth)
     ELSE IF isRunning(getDigest(userId)) THEN answered(202)
     ELSE /\ requests' = [requests EXCEPT ![r] =
                            [pc |-> "enqueue", claims |-> claims,
                             status |-> 0,
                             overlaps |-> Overlapping(r, userId)]]
          /\ last' = Step("submitGuard", claims, active, granted, 0, NoBody)

\* lines 96-110: the enqueue call and the answer
SubmitEnqueue(r) ==
  LET userId == requests[r].claims
      id     == uuid(nextId)
  IN
  /\ requests[r].pc = "enqueue"
  /\ nextId <= MaxJobs
  /\ nextId' = nextId + 1
  /\ \E enq \in EnqueueOutcomes :
       /\ (enq = "ok" => ~writeDigestThrows)
       /\ enqueueCreateDigest(id, userId, enq)
       /\ requests' = [requests EXCEPT ![r].pc = "done",
                                       ![r].status = submitStatus(enq)]
       /\ last' = Step("submit", userId, TRUE, TRUE, submitStatus(enq),
                       IF enq = "ok" THEN send(PendingRecord(id)) ELSE NoBody)
       /\ submit201' = submit201 + IF submitStatus(enq) = 201 THEN 1 ELSE 0
       /\ submit500' = submit500 + IF submitStatus(enq) = 500 THEN 1 ELSE 0
  /\ UNCHANGED << redisClient, usageVars, feedbackVars, viewer >>

(***************************************************************************)
(* usageLimitPlugin of the GraphQL server                                  *)
(***************************************************************************)
\* const MAX_SENT_EMAIL_PER_DAY = 3
MAX_SENT_EMAIL_PER_DAY == 3

\* const action = 'replyToEmail'
action == "replyToEmail"

\* contextValue.request.query: the mutation, a document that only mentions
\* the action's name, or another document (a request without a query is
\* treated as the last: query?.includes is then undefined)
ReplyMutation == "mutation { replyToEmail(...) }"
MentionOnly == "query { me } # replyToEmail"
OtherQuery == "query { me }"
Queries == {ReplyMutation, MentionOnly, OtherQuery}

\* query?.includes(action)
includesAction(query) == query \in {ReplyMutation, MentionOnly}

\* contextValue.context.claims?.uid
UserIds == Users \cup {Undefined}

\* the requests drawn: any query of a user, the mutation without claims
Requests ==
  {r \in [userId : UserIds, query : Queries] :
     r.userId = Undefined => r.query = ReplyMutation}

\* what the resolvers made of the request: a response without errors, one
\* with response.errors, one with data.replyToEmail.errorCodes
Responses == {"ok", "errors", "errorCodes"}

\* countDailyServiceUsage(userId, action): today's rows of the user
countDailyServiceUsage(userId) == usage[userId]

\* createServiceUsage(userId, action): one more row for today
createServiceUsage(userId) == [usage EXCEPT ![userId] = @ + 1]

\* variant: > in place of >=
limitReachedAbove(emailSentCount) == emailSentCount > MAX_SENT_EMAIL_PER_DAY

\* emailSentCount >= MAX_SENT_EMAIL_PER_DAY
limitReached(emailSentCount) == emailSentCount >= MAX_SENT_EMAIL_PER_DAY

\* the request is one the plugin meters: userId && query?.includes(action)
metered(req) == req.userId # Undefined /\ includesAction(req.query)

\* variant: the errorCodes of the reply are not looked at
successfulNoErrorCodes(req, response) == metered(req) /\ response # "errors"

\* the condition under which willSendResponse counts the request
successful(req, response) == metered(req) /\ response = "ok"

UsageStep(op, req, response, status) ==
  [op |-> op, userId |-> req.userId, query |-> req.query,
   response |-> response, status |-> status]

NoRequest == [userId |-> Undefined, query |-> OtherQuery]

InflightTotal ==
  LET RECURSIVE sum(_)
      sum(S) == IF S = {} THEN 0
                ELSE LET r == CHOOSE x \in S : TRUE
                     IN  inflight[r] + sum(S \ {r})
  IN  sum(Requests)

\* requestDidStart: throws when the user has used up the day's limit,
\* otherwise the request goes on to the resolvers
requestDidStart(req) ==
  /\ IF metered(req) /\ limitReached(countDailyServiceUsage(req.userId))
     THEN /\ last' = UsageStep("requestDidStart", req, "none", "rejected")
          /\ UNCHANGED inflight
     ELSE /\ InflightTotal < MaxInflight
          /\ inflight' = [inflight EXCEPT ![req] = @ + 1]
          /\ last' = UsageStep("requestDidStart", req, "none", "started")
  /\ UNCHANGED << usage, completed, digestVars, feedbackVars, otherVars >>

\* willSendResponse of a request that went on: counts it when successful
willSendResponse(req, response) ==
  /\ inflight[req] > 0
  /\ inflight' = [inflight EXCEPT ![req] = @ - 1]
  /\ usage' = IF successful(req, response)
              THEN createServiceUsage(req.userId) ELSE usage
  /\ completed' = IF /\ req.userId # Undefined
                     /\ req.query = ReplyMutation
                     /\ response = "ok"
                  THEN [completed EXCEPT ![req.userId] = @ + 1]
                  ELSE completed
  /\ last' = UsageStep("willSendResponse", req, response, "sent")
  /\ UNCHANGED << digestVars, feedbackVars, otherVars >>

\* the calendar day rolls over: the counts of the new day start at zero
NewDay ==
  /\ \E u \in Users : usage[u] > 0
  /\ usage' = [u \in Users |-> 0]
  /\ completed' = [u \in Users |-> 0]
  /\ last' = UsageStep("newDay", NoRequest, "none", "none")
  /\ UNCHANGED << inflight, digestVars, feedbackVars, otherVars >>

(***************************************************************************)
(* DataService.fetchViewer of the iOS client: the call creates a checked   *)
(* continuation and sends the query; the completion handler of `send`      *)
(* runs once, with the result of the request.                              *)
(***************************************************************************)
SendResults == {"success", "failure"}

ViewerInit ==
  [pc |-> "idle", calls |-> 0, result |-> "none", intercomHash |-> FALSE,
   selfAlive |-> FALSE, saveOk |-> FALSE, userIdKey |-> FALSE,
   hashSet |-> FALSE, saved |-> 0, persisted |-> FALSE, resumed |-> << >>]

\* variant: the value is handed over before persist is tried
resumptionsBeforePersist(result, selfAlive, saveOk) ==
  IF result = "failure" THEN << "http error" >>
  ELSE IF ~selfAlive THEN << "no self found" >>
  ELSE IF saveOk THEN << "value" >>
  ELSE << "value", "coredata error" >>

\* the continuation.resume calls the completion handler makes, in order
resumptions(result, selfAlive, saveOk) ==
  IF result = "failure" THEN << "http error" >>
  ELSE IF ~selfAlive THEN << "no self found" >>
  ELSE IF saveOk THEN << "value" >>
  ELSE << "coredata error" >>

\* persist(context:) is reached
persistCalled(result, selfAlive) == result = "success" /\ selfAlive

\* persist: context.save() keeps the new Viewer, or rollback and rethrow
persist(saved, saveOk) == IF saveOk THEN saved + 1 ELSE saved

\* fetchViewer up to `send(query, ...)`
fetchViewer ==
  /\ viewer.pc \in {"idle", "done"}
  /\ viewer.calls < MaxFetches
  /\ viewer' = [viewer EXCEPT !.pc = "sent", !.calls = @ + 1,
                              !.result = "none", !.intercomHash = FALSE,
                              !.selfAlive = FALSE, !.saveOk = FALSE,
                              !.persisted = FALSE, !.resumed = << >>]
  /\ last' = Internal("fetchViewer")
  /\ UNCHANGED << digestVars, usageVars, feedbackVars, requests >>

\* the completion handler, lines 34-59
sendCompletion(result, intercomHash, selfAlive, saveOk) ==
  /\ viewer.pc = "sent"
  /\ viewer' =
       [viewer EXCEPT
          !.pc = "done",
          !.result = result,
          !.intercomHash = result = "success" /\ intercomHash,
          !.selfAlive = selfAlive,
          !.saveOk = persistCalled(result, selfAlive) /\ saveOk,
          !.userIdKey = @ \/ result = "success",
          !.hashSet = @ \/ (result = "success" /\ intercomHash),
          !.saved = IF persistCalled(result, selfAlive)
                    THEN persist(@, saveOk) ELSE @,
          !.persisted = persistCalled(result, selfAlive) /\ saveOk,
          !.resumed = resumptions(result, selfAlive, saveOk)]
  /\ last' = Internal("sendCompletion")
  /\ UNCHANGED << digestVars, usageVars, feedbackVars, requests >>

(***************************************************************************)
(* router.post('/v1/feedback')                                             *)
(***************************************************************************)
RequiredRatings ==
  {"digestRating", "rankingRating", "summaryRating", "voiceRating",
   "musicRating"}

\* the property names a request body may carry
FeedbackKeys == RequiredRatings \cup {"comment"}

\* variant: the musicRating test is missing
isFeedbackFourTests(data) ==
  /\ "digestRating" \in data
  /\ "rankingRating" \in data
  /\ "summaryRating" \in data
  /\ "voiceRating" \in data

\* isFeedback: the five `in` tests
isFeedback(data) ==
  /\ "digestRating" \in data
  /\ "rankingRating" \in data
  /\ "summaryRating" \in data
  /\ "voiceRating" \in data
  /\ "musicRating" \in data

\* delete feedback.comment
deleteComment(feedback) == feedback \ {"comment"}

\* the event handed to analytics.capture: { ...feedback, env }
captureEvent(userId, feedback) ==
  [distinctId |-> userId, event |-> "digest_feedback",
   properties |-> feedback \cup {"env"}]

\* what becomes of the event after analytics.capture has returned (the call
\* is not awaited): it reaches the analytics service, or it is lost
CaptureOutcomes == {"delivered", "lost"}

\* variant: the answer waits for the delivery and fails with it
feedbackStatusAwaited(capture) == IF capture = "delivered" THEN 200 ELSE 500

\* res.sendStatus(200), sent once analytics.capture has returned
feedbackStatus(capture) == 200

FeedbackStep(claims, active, granted, data, capture, status) ==
  [op |-> "feedback", claims |-> claims,
   active |-> claims \in Users /\ active,
   granted |-> claims \in Users /\ active /\ granted,
   data |-> data, capture |-> capture, status |-> status]

Feedback(claims, active, granted, data) ==
  LET userId == claims
      auth   == authorize(claims, active, granted)
      reply(status, capture) ==
        last' = FeedbackStep(claims, active, granted, data, capture, status)
  IN
  /\ UNCHANGED << digestVars, usageVars, otherVars >>
  /\ IF auth # 0 THEN reply(auth, "none") /\ UNCHANGED analytics
     ELSE IF ~isFeedback(data) THEN reply(400, "none") /\ UNCHANGED analytics
     ELSE /\ analytics' =
               analytics \cup {captureEvent(userId, deleteComment(data))}
          /\ \E capture \in CaptureOutcomes :
               reply(feedbackStatus(capture), capture)

(***************************************************************************)
(* Specification of the digest router                                      *)
(***************************************************************************)
DigestInit ==
  /\ redisClient = TRUE
  /\ redis = [k \in Keys |-> NoEntry]
  /\ elapsed = [k \in Keys |-> TRUE]
  /\ queue = {}
  /\ nextId = 1
  /\ enqueueCalls = 0
  /\ submit201 = 0
  /\ submit500 = 0
  /\ written = [k \in Keys |-> Null]

UsageInit ==
  /\ usage = [u \in Users |-> 0]
  /\ completed = [u \in Users |-> 0]
  /\ inflight = [r \in Requests |-> 0]

FeedbackInit == analytics = {}

OtherInit ==
  /\ requests = [r \in ReqIds |-> NoRequestYet]
  /\ viewer = ViewerInit

Init ==
  /\ DigestInit /\ UsageInit /\ FeedbackInit /\ OtherInit
  /\ last = Internal("init")

Next ==
  \/ \E claims \in ClaimsOutcomes, active \in BOOLEAN, granted \in BOOLEAN :
        Submit(claims, active, granted)
  \/ \E claims \in ClaimsOutcomes, active \in BOOLEAN, granted \in BOOLEAN :
        GetStatus(claims, active, granted)
  \/ \E job \in queue, payload \in Payloads : WorkerStart(job, payload)
  \/ \E job \in queue, outcome \in Outcomes :
        WorkerFinish(job, outcome[1], outcome[2])
  \/ \E key \in Keys : Elapse(key)

Spec == Init /\ [][Next]_vars

\* the store's expiry is not put off for ever: for every key, the retention
\* window that started with its last SET comes to its end
Expiry == \A key \in Keys : WF_vars(Elapse(key))

\* POST /v1, the worker and the expiry; the worker's records carry no result
NextRecovery ==
  \/ \E claims \in ClaimsOutcomes, active \in BOOLEAN, granted \in BOOLEAN :
        Submit(claims, active, granted)
  \/ \E job \in queue : WorkerStart(job, NoFields)
  \/ \E job \in queue, jobState \in {SUCCEEDED, FAILED} :
        WorkerFinish(job, jobState, NoFields)
  \/ \E key \in Keys : Elapse(key)

SpecRecovery == Init /\ [][NextRecovery]_vars /\ Expiry

(***************************************************************************)
(* Specification of the usage limit plugin                                 *)
(***************************************************************************)
InitUsage ==
  /\ DigestInit /\ UsageInit /\ FeedbackInit /\ OtherInit
  /\ last = UsageStep("init", NoRequest, "none", "none")

NextUsage ==
  \/ \E req \in Requests : requestDidStart(req)
  \/ \E req \in Requests, response \in Responses :
        willSendResponse(req, response)
  \/ NewDay

SpecUsage == InitUsage /\ [][NextUsage]_vars

(***************************************************************************)
(* Specification of the feedback endpoint                                  *)
(***************************************************************************)
InitFeedback ==
  /\ DigestInit /\ UsageInit /\ FeedbackInit /\ OtherInit
  /\ last = FeedbackStep(NoClaims, FALSE, FALSE, {}, "none", 0)

NextFeedback ==
  \E claims \in ClaimsOutcomes, active \in BOOLEAN, granted \in BOOLEAN,
     data \in SUBSET FeedbackKeys : Feedback(claims, active, granted, data)

SpecFeedback == InitFeedback /\ [][NextFeedback]_vars

(***************************************************************************)
(* Specification of the three endpoints of the digest router together      *)
(***************************************************************************)
\* request bodies of POST /v1/feedback: a valid one, and one that lacks a
\* rating
FeedbackBodies ==
  {RequiredRatings \cup {"comment"}, RequiredRatings \ {"musicRating"}}

\* the record a worker left in the store before the first request: none, or
\* the record of a job of u1 that is running
StoredAtStart == {Null, Record("job0", RUNNING, NoFields)}

InitRouter ==
  /\ \E digest \in StoredAtStart :
       /\ redis = IF digest = Null THEN [k \in Keys |-> NoEntry]
                  ELSE [[k \in Keys |-> NoEntry] EXCEPT ![digestKey("u1")] =
                          [value |-> JSONstringify(digest),
                           ttl |-> RetentionSeconds]]
       /\ elapsed = [k \in Keys |-> k # digestKey("u1") \/ digest = Null]
       /\ written = [k \in Keys |->
                       IF k = digestKey("u1") THEN digest ELSE Null]
  /\ redisClient = TRUE
  /\ queue = {}
  /\ nextId = 1
  /\ enqueueCalls = 0
  /\ submit201 = 0
  /\ submit500 = 0
  /\ UsageInit /\ FeedbackInit /\ OtherInit
  /\ last = Internal("init")

NextRouter ==
  \/ \E claims \in ClaimsOutcomes, active \in BOOLEAN, granted \in BOOLEAN :
        Submit(claims, active, granted)
  \/ \E claims \in ClaimsOutcomes, active \in BOOLEAN, granted \in BOOLEAN :
        GetStatus(claims, active, granted)
  \/ \E claims \in ClaimsOutcomes, active \in BOOLEAN, granted \in BOOLEAN,
        data \in FeedbackBodies : Feedback(claims, active, granted, data)

SpecRouter == InitRouter /\ [][NextRouter]_vars

(***************************************************************************)
(* Specification of the digest router with and without a cache client:     *)
(* redisDataSource.redisClient is set or not when the process starts, and  *)
(* the store may hold a record from before.                                *)
(***************************************************************************)
InitStore ==
  /\ \E digest \in StoredAtStart :
       /\ redis = IF digest = Null THEN [k \in Keys |-> NoEntry]
                  ELSE [[k \in Keys |-> NoEntry] EXCEPT ![digestKey("u1")] =
                          [value |-> JSONstringify(digest),
                           ttl |-> RetentionSeconds]]
       /\ elapsed = [k \in Keys |-> k # digestKey("u1") \/ digest = Null]
       /\ written = [k \in Keys |->
                       IF k = digestKey("u1") THEN digest ELSE Null]
  /\ redisClient \in BOOLEAN
  /\ queue = {}
  /\ nextId = 1
  /\ enqueueCalls = 0
  /\ submit201 = 0
  /\ submit500 = 0
  /\ UsageInit /\ FeedbackInit /\ OtherInit
  /\ last = Internal("init")

NextStore ==
  \/ \E claims \in ClaimsOutcomes, active \in BOOLEAN, granted \in BOOLEAN :
        Submit(claims, active, granted)
  \/ \E claims \in ClaimsOutcomes, active \in BOOLEAN, granted \in BOOLEAN :
        GetStatus(claims, active, granted)
  \/ \E job \in queue : WorkerStart(job, NoFields)
  \/ \E job \in queue, jobState \in {SUCCEEDED, FAILED} :
        WorkerFinish(job, jobState, NoFields)
  \/ \E key \in Keys : Elapse(key)

SpecStore == InitStore /\ [][NextStore]_vars

(***************************************************************************)
(* Specification of POST /v1 with two requests being handled at once       *)
(***************************************************************************)
NextConcurrent ==
  \/ \E r \in ReqIds, claims \in ClaimsOutcomes, active \in BOOLEAN,
        granted \in BOOLEAN : SubmitGuard(r, claims, active, granted)
  \/ \E r \in ReqIds : SubmitEnqueue(r)
  \/ \E job \in queue, payload \in Payloads : WorkerStart(job, payload)
  \/ \E job \in queue, outcome \in Outcomes :
        WorkerFinish(job, outcome[1], outcome[2])

SpecConcurrent == Init /\ [][NextConcurrent]_vars

(***************************************************************************)
(* Specification of fetchViewer                                            *)
(***************************************************************************)
NextViewer ==
  \/ fetchViewer
  \/ \E result \in SendResults, intercomHash \in BOOLEAN,
        selfAlive \in BOOLEAN, saveOk \in BOOLEAN :
        sendCompletion(result, intercomHash, selfAlive, saveOk)

SpecViewer == Init /\ [][NextViewer]_vars

(***************************************************************************)
(* Reading a response                                                      *)
(***************************************************************************)
BodyKeys(body) == {body[i][1] : i \in DOMAIN body}

Member(body, k) ==
  LET i == CHOOSE n \in DOMAIN body : body[n][1] = k IN body[i][2]

\* the job id a response carries, under either name
BodyJobId(body) ==
  IF "jobId" \in BodyKeys(body) THEN Member(body, "jobId")
  ELSE IF "id" \in BodyKeys(body) THEN Member(body, "id")
  ELSE Undefined

\* the step just taken was the named request of an authorized, entitled user
Served(op, u) ==
  last.op = op /\ last.claims = u /\ last.active /\ last.granted

(***************************************************************************)
(* C1: for a user whose record is Pending or Running, a Submit returns the *)
(* id of that record, and does not call the enqueue collaborator.          *)
(***************************************************************************)
C1_ResubmitReturnsSameJob ==
  [][ \A u \in Users :
        ( /\ jobStateOf(getDigest(u)) \in {PENDING, RUNNING}
          /\ Served("submit", u)' )
        => /\ BodyJobId(last'.body) = getDigest(u)["id"]
           /\ enqueueCalls' = enqueueCalls ]_vars

C3_RunningStatusOnly ==
  \A u \in Users :
    (Served("status", u) /\ isRunning(getDigest(u)))
    => /\ last.status = 200
       /\ BodyKeys(last.body) = {"jobId", "jobState"}
       /\ Member(last.body, "jobId") = getDigest(u)["id"]
       /\ Member(last.body, "jobState") = RUNNING

\* the stored Running record holds result fields, the answer does not
C3_Witness ==
  \E u \in Users :
    /\ Served("status", u) /\ last.status = 200
    /\ isRunning(getDigest(u))
    /\ "title" \in DOMAIN getDigest(u)
    /\ BodyKeys(last.body) = {"jobId", "jobState"}

(***************************************************************************)
(* C4: while the record last written for a user is a Succeeded one (and    *)
(* has not expired), a GetStatus answers 200 with that record: the same    *)
(* id, state and result fields, no more and no less (and its createdAt,    *)
(* if it has one).                                                         *)
(***************************************************************************)
C4_SucceededRecordReturned ==
  \A u \in Users :
    LET w == written[digestKey(u)] IN
    (Served("status", u) /\ jobStateOf(w) = SUCCEEDED)
    => /\ last.status = 200
       /\ \A k \in {"id", "jobState"} \cup ResultFields :
            IF k \in DOMAIN w /\ w[k] # Undefined
            THEN k \in BodyKeys(last.body) /\ Member(last.body, k) = w[k]
            ELSE k \notin BodyKeys(last.body)
       /\ "createdAt" \in BodyKeys(last.body)
          <=> ("createdAt" \in DOMAIN w /\ w["createdAt"] # Undefined)

C4_Witness ==
  \E u \in Users :
    /\ Served("status", u) /\ last.status = 200
    /\ written[digestKey(u)] = Record(BodyJobId(last.body), SUCCEEDED,
                                      FullResult)
    /\ Member(last.body, "title") = "Weekly Digest"

(***************************************************************************)
(* C5: a Submit of a caller with valid claims and an active account but    *)
(* without the granted feature is answered 403, and leaves the store, the  *)
(* queue and the count of enqueue calls as they were.                      *)
(***************************************************************************)
C5_ForbiddenNoEffect ==
  [][ ( /\ last'.op = "submit" /\ last'.claims \in Users
        /\ last'.active /\ ~last'.granted )
      => /\ last'.status = 403
         /\ redis' = redis /\ queue' = queue
         /\ enqueueCalls' = enqueueCalls ]_vars

C5_Witness ==
  /\ last.op = "submit" /\ last.claims \in Users
  /\ last.active /\ ~last.granted /\ last.status = 403

C7_LimitRefusesNextRequest ==
  [][ \A u \in Users :
        ( /\ completed[u] >= MAX_SENT_EMAIL_PER_DAY
          /\ last'.op = "requestDidStart"
          /\ last'.userId = u /\ last'.query = ReplyMutation )
        => /\ last'.status = "rejected"
           /\ inflight' = inflight
           /\ usage' = usage ]_vars

C7_Witness ==
  /\ last.op = "requestDidStart" /\ last.status = "rejected"
  /\ last.userId \in Users /\ last.query = ReplyMutation
  /\ completed[last.userId] = MAX_SENT_EMAIL_PER_DAY

C9_FeedbackValidated ==
  [][ /\ (last'.op = "feedback" /\ ~(RequiredRatings \subseteq last'.data))
         => /\ last'.status # 200
            /\ last'.granted => last'.status = 400
            /\ analytics' = analytics
      /\ \A e \in analytics' : "comment" \notin e.properties ]_vars

\* a body with the five ratings and a comment was accepted, and the event
\* captured for it has the ratings and no comment
C9_Witness ==
  /\ last.op = "feedback" /\ last.status = 200
  /\ "comment" \in last.data
  /\ captureEvent(last.claims, RequiredRatings) \in analytics

(***************************************************************************)
(* C10: once a retention window has passed since the last write of a       *)
(* user's record, a GetStatus of that user answers 404.                    *)
(***************************************************************************)
C10_ExpiredNotFound ==
  \A u \in Users :
    (Served("status", u) /\ elapsed[digestKey(u)]) => last.status = 404

\* the record of a job the worker still holds has expired
C10_Witness ==
  \E u \in Users :
    /\ Served("status", u) /\ elapsed[digestKey(u)] /\ last.status = 404
    /\ \E job \in queue : job.userId = u /\ job.status = "active"

(***************************************************************************)
(* C11: of two POST /v1 requests of one user that are handled at the same  *)
(* time (the second read the record before the first enqueued), at most    *)
(* one enqueues a job and is answered 201.                                 *)
(***************************************************************************)
Accepted(r) == requests[r].pc = "done" /\ requests[r].status = 201

C11_AtMostOneAccepted ==
  \A r1 \in ReqIds, r2 \in ReqIds :
     (/\ r1 # r2
      /\ requests[r1].claims = requests[r2].claims
      /\ requests[r2].overlaps)
     => ~(Accepted(r1) /\ Accepted(r2))

Ordered(claims, active, granted, passed) ==
  IF claims \notin Users \/ ~active THEN last'.status = 401
  ELSE IF ~granted THEN last'.status = 403
  ELSE last'.status \in passed

C13_ChecksInOrder ==
  [][\A active \in BOOLEAN, granted \in BOOLEAN :
       LET claims == last'.claims IN
       /\ (last'.op = "submit" /\ Submit(claims, active, granted))
            => Ordered(claims, active, granted, {202, 201, 500})
       /\ (last'.op = "status" /\ GetStatus(claims, active, granted))
            => Ordered(claims, active, granted, {404, 200})
       /\ (last'.op = "feedback" /\ Feedback(claims, active, granted,
                                              last'.data))
            => Ordered(claims, active, granted, {400, 200})]_vars

\* a valid feedback of an active user without the entitlement, whose record
\* is stored, has been answered 403
C13_Witness ==
  /\ last.op = "feedback"
  /\ last.status = 403
  /\ isFeedback(last.data)
  /\ last.claims \in Users
  /\ getDigest(last.claims) # Null

Terminal(digest) == jobStateOf(digest) \in {SUCCEEDED, FAILED}

C16_TerminalResubmitAccepted ==
  [][\A u \in Users :
       (/\ last'.op = "submit" /\ last'.claims = u /\ last'.granted
        /\ Terminal(getDigest(u)))
       => /\ last'.status \in {201, 500}
          /\ enqueueCalls' = enqueueCalls + 1
          /\ redis' # redis => last'.status = 201
          /\ last'.status = 201 =>
               /\ BodyJobId(last'.body) = uuid(nextId)
               /\ BodyJobId(last'.body) # getDigest(u)["id"]
               /\ \A job \in queue : job.id # BodyJobId(last'.body)
               /\ \E job \in queue' :
                    job.id = BodyJobId(last'.body) /\ job.userId = u]_vars

\* a submission whose guard read the Succeeded record of the first job was
\* answered 201, and the stored record is now Pending for the second job
C16_Witness ==
  /\ last.op = "submit"
  /\ last.status = 201
  /\ last.seen = SUCCEEDED
  /\ getDigest(last.claims) = PendingRecord(uuid(2))

(***************************************************************************)
(* C17: recovery of a stuck job.  While a caller's record is Running and   *)
(* has not expired, every POST /v1 of the caller is answered 202, without  *)
(* an enqueue call and without a change of the record.  A Running record   *)
(* stops being Running only through a write of the worker or through its   *)
(* expiry, and it does not stay Running for ever: when the worker writes   *)
(* no more, the retention window runs out.  A POST /v1 after the expiry    *)
(* passes the guard: one enqueue call, answered 201 when the call returns. *)
(***************************************************************************)
C17_RefusedWhileRunning ==
  \A u \in Users :
     (/\ last'.op = "submit" /\ last'.claims = u /\ last'.granted
      /\ isRunning(getDigest(u)))
     => /\ last'.status = 202
        /\ UNCHANGED << redis, queue, enqueueCalls, nextId >>

C17_NoOtherPath ==
  \A u \in Users :
     (isRunning(getDigest(u)) /\ ~isRunning(getDigest(u))')
     => last'.op \in {"workerFinish", "elapse"}

C17_AcceptedAfterExpiry ==
  \A u \in Users :
     (/\ last'.op = "submit" /\ last'.claims = u /\ last'.granted
      /\ elapsed[digestKey(u)])
     => /\ last'.status \in {201, 500}
        /\ enqueueCalls' = enqueueCalls + 1
        /\ redis' # redis => last'.status = 201

C17_StuckJobRecovery ==
  /\ [][C17_RefusedWhileRunning]_vars
  /\ [][C17_NoOtherPath]_vars
  /\ [][C17_AcceptedAfterExpiry]_vars
  /\ \A u \in Users :
       isRunning(getDigest(u)) ~> ~isRunning(getDigest(u))

\* the first job of a caller is still held by the worker, its Running record
\* has expired, and the caller's next submission was answered 201
C17_Witness ==
  /\ last.op = "submit"
  /\ last.status = 201
  /\ last.seen = Undefined
  /\ \E job \in queue :
       /\ job.userId = last.claims
       /\ job.status = "active"
       /\ job.id # BodyJobId(last.body)

(***************************************************************************)
(* C18: whatever way the replyToEmail requests of a user are interleaved,  *)
(* the number of replies that completed successfully in one day never      *)
(* exceeds MAX_SENT_EMAIL_PER_DAY.                                         *)
(***************************************************************************)
C18_QuotaHoldsUnderConcurrency ==
  \A u \in Users : completed[u] <= MAX_SENT_EMAIL_PER_DAY

(***************************************************************************)
(* C19: in fetchViewer the checked continuation is resumed exactly once on *)
(* every path of the completion handler: with the viewer value when the    *)
(* request succeeded, self is alive and persist succeeded; with an error   *)
(* when self is gone, when persist threw, and when the request failed.  It *)
(* is resumed with the value only after persist has saved the Viewer, and  *)
(* it is not resumed before the completion handler runs.                   *)
(***************************************************************************)
C19_ResumedExactlyOnce ==
  /\ viewer.pc = "sent" => viewer.resumed = << >>
  /\ viewer.pc = "done" =>
       /\ Len(viewer.resumed) = 1
       /\ viewer.resumed[1] =
            (CASE viewer.result = "failure" -> "http error"
               [] viewer.result = "success" /\ ~viewer.selfAlive
                    -> "no self found"
               [] viewer.result = "success" /\ viewer.selfAlive
                  /\ ~viewer.saveOk -> "coredata error"
               [] OTHER -> "value")
       /\ viewer.resumed[1] = "value" => (viewer.persisted /\ viewer.saved > 0)

\* the request succeeded, self was alive and persist threw: the caller got
\* the coredata error and no Viewer was saved
C19_Witness ==
  /\ viewer.pc = "done"
  /\ viewer.result = "success"
  /\ viewer.selfAlive
  /\ ~viewer.saveOk
  /\ viewer.resumed = << "coredata error" >>
  /\ viewer.saved = 0

(***************************************************************************)
(* C20: the two store helpers fail in different ways.  A writeDigest that  *)
(* returned has stored the record under digest:<userId> with the whole     *)
(* retention as expiry; without a cache client it throws and stores        *)
(* nothing.  getDigest without a client returns null, whatever the store   *)
(* holds.  So without a client the guard of POST /v1 is open: the request  *)
(* is never answered 202 and calls the enqueue collaborator; and GET /v1   *)
(* answers 404.                                                            *)
(***************************************************************************)
C20_WriteStoresOrThrows ==
  \A u \in Users :
     LET key == digestKey(u) IN
     /\ written[key] # Null =>
          redis[key] = [value |-> JSONstringify(written[key]),
                        ttl |-> RetentionSeconds]
     /\ writeDigestThrows => writeDigest(u, PendingRecord(uuid(nextId))) = redis

C20_ReadGivesNull ==
  ~redisClient =>
     /\ \A u \in Users : getDigest(u) = Null
     /\ \A u \in Users : Served("status", u) => last.status = 404

C20_GuardFailsOpen ==
  (~redisClient /\ last'.op = "submit" /\ last'.granted)
  => /\ last'.status \in {201, 500}
     /\ enqueueCalls' = enqueueCalls + 1

C20_HelpersFailAsymmetrically ==
  /\ [](C20_WriteStoresOrThrows /\ C20_ReadGivesNull)
  /\ [][C20_GuardFailsOpen]_vars

\* there is no client, the store holds the Running record of u1, and a
\* submission of u1 got as far as the enqueue call
C20_Witness ==
  /\ ~redisClient
  /\ isRunning(JSONparse(redis[digestKey("u1")].value))
  /\ last.op = "submit"
  /\ last.claims = "u1"
  /\ last.granted
  /\ enqueueCalls > 0

=============================================================================
